---- MODULE Spec2Model ----
(***************************************************************************)
(* Model of scripts/methane_o2_structure_increments.py:                    *)
(* increment_and_write_xyz reads a geometry template, sweeps a             *)
(* y-coordinate from start to stop by repeated floating-point addition     *)
(* and writes one directory with two geometry files per sweep value, then  *)
(* a manifest of the directories.                                          *)
(*                                                                         *)
(* Python floats are IEEE-754 doubles.  A double is modelled exactly as a  *)
(* sign and a magnitude counted in units of 2^-Scale; the magnitude is a   *)
(* natural number written little-endian in limbs of LimbBits bits, because *)
(* a 53-bit significand does not fit a TLC integer.  Addition rounds to 53 *)
(* significant bits, ties to even; float() and the format specifications   *)
(* .1f, .6f and .8f are the correctly rounded conversions Python performs. *)
(***************************************************************************)
EXTENDS Integers, Sequences, FiniteSets

\* ------------------------------------------------------------------------
\* Natural numbers of arbitrary size: little-endian limbs, no leading zero.
\* ------------------------------------------------------------------------

\* Bits per limb of a magnitude.
LimbBits == 16

\* Significand width of a Python float (IEEE-754 binary64).
MantBits == 53

\* A magnitude m stands for the real number m * 2^-Scale.
Scale == 80

Base == 2 ^ LimbBits

Zero == << >>

One == << 1 >>

RECURSIVE Norm(_)
Norm(a) ==
    IF a = << >> THEN << >>
    ELSE IF a[Len(a)] = 0 THEN Norm(SubSeq(a, 1, Len(a) - 1))
    ELSE a

Limb(a, i) == IF i >= 1 /\ i <= Len(a) THEN a[i] ELSE 0

RECURSIVE FromNat(_)
FromNat(n) == IF n = 0 THEN << >> ELSE << n % Base >> \o FromNat(n \div Base)

RECURSIVE AddC(_, _, _, _)
AddC(a, b, i, c) ==
    IF i > Len(a) /\ i > Len(b)
    THEN (IF c = 0 THEN << >> ELSE << c >>)
    ELSE LET s == Limb(a, i) + Limb(b, i) + c
         IN  << s % Base >> \o AddC(a, b, i + 1, s \div Base)

BAdd(a, b) == AddC(a, b, 1, 0)

\* a - b for a >= b.
RECURSIVE SubC(_, _, _, _)
SubC(a, b, i, c) ==
    IF i > Len(a) THEN << >>
    ELSE LET s == Limb(a, i) - Limb(b, i) - c
         IN  << s % Base >> \o SubC(a, b, i + 1, IF s < 0 THEN 1 ELSE 0)

BSub(a, b) == Norm(SubC(a, b, 1, 0))

\* -1, 0, 1 as a <, =, > b, comparing from limb i downwards.
RECURSIVE CmpFrom(_, _, _)
CmpFrom(a, b, i) ==
    IF i = 0 THEN 0
    ELSE IF a[i] < b[i] THEN -1
    ELSE IF a[i] > b[i] THEN 1
    ELSE CmpFrom(a, b, i - 1)

BCmp(a, b) ==
    IF Len(a) < Len(b) THEN -1
    ELSE IF Len(a) > Len(b) THEN 1
    ELSE CmpFrom(a, b, Len(a))

\* a * k for a small k (k * Base fits a TLC integer).
RECURSIVE MulC(_, _, _, _)
MulC(a, k, i, c) ==
    IF i > Len(a) THEN FromNat(c)
    ELSE LET s == a[i] * k + c
         IN  << s % Base >> \o MulC(a, k, i + 1, s \div Base)

MulSmall(a, k) == Norm(MulC(a, k, 1, 0))

RECURSIVE MulPow10(_, _)
MulPow10(a, p) ==
    IF p = 0 THEN a
    ELSE IF p >= 4 THEN MulPow10(MulSmall(a, 10000), p - 4)
    ELSE MulPow10(MulSmall(a, 10), p - 1)

\* Quotient limbs i..1 of a by a small d, most significant first, with the
\* running remainder r; the result is [q |-> quotient, r |-> remainder].
RECURSIVE DivC(_, _, _, _)
DivC(a, d, i, r) ==
    IF i = 0 THEN [q |-> << >>, r |-> r]
    ELSE LET s    == r * Base + a[i]
             rest == DivC(a, d, i - 1, s % d)
         IN  [q |-> Append(rest.q, s \div d), r |-> rest.r]

DivSmall(a, d) ==
    LET res == DivC(a, d, Len(a), 0)
    IN  [q |-> Norm(res.q), r |-> res.r]

\* Number of significant bits.
BitLen(a) ==
    IF a = << >> THEN 0
    ELSE LimbBits * (Len(a) - 1)
         + (CHOOSE k \in 1..LimbBits : 2 ^ (k - 1) <= a[Len(a)] /\ a[Len(a)] < 2 ^ k)

\* Bit k of a, bit 0 the least significant.
Bit(a, k) == (Limb(a, (k \div LimbBits) + 1) \div (2 ^ (k % LimbBits))) % 2

\* Whether any of the k least significant bits of a is set.
LowNonzero(a, k) ==
    \/ \E i \in 1..(k \div LimbBits) : Limb(a, i) # 0
    \/ Limb(a, (k \div LimbBits) + 1) % (2 ^ (k % LimbBits)) # 0

ShiftRight(a, k) ==
    LET s == k \div LimbBits
        r == k % LimbBits
    IN  IF Len(a) <= s THEN << >>
        ELSE Norm([i \in 1..(Len(a) - s) |->
                    (a[i + s] \div (2 ^ r))
                    + (Limb(a, i + s + 1) % (2 ^ r)) * (2 ^ (LimbBits - r))])

ShiftLeft(a, k) ==
    LET s == k \div LimbBits
        r == k % LimbBits
    IN  IF a = << >> THEN << >>
        ELSE Norm([i \in 1..(Len(a) + s + 1) |->
                    (Limb(a, i - s) % (2 ^ (LimbBits - r))) * (2 ^ r)
                    + (Limb(a, i - s - 1) \div (2 ^ (LimbBits - r)))])

\* a / 2^k rounded to the nearest integer, ties to even; sticky says that
\* a itself was truncated from a larger exact value.
RoundShift(a, k, sticky) ==
    LET q    == ShiftRight(a, k)
        half == IF k = 0 THEN 0 ELSE Bit(a, k - 1)
        rest == sticky \/ (k > 1 /\ LowNonzero(a, k - 1))
        up   == half = 1 /\ (rest \/ Bit(q, 0) = 1)
    IN  IF up THEN BAdd(q, One) ELSE q

\* a rounded to MantBits significant bits, ties to even.
RoundMant(a, sticky) ==
    IF BitLen(a) <= MantBits THEN a
    ELSE LET drop == BitLen(a) - MantBits
         IN  ShiftLeft(RoundShift(a, drop, sticky), drop)

\* ------------------------------------------------------------------------
\* Python floats and their conversions.
\* ------------------------------------------------------------------------

\* A float: sign and magnitude in units of 2^-Scale (mag has at most
\* MantBits significant bits).
Dbl(neg, mag) == [neg |-> neg, mag |-> mag]

\* A decimal numeral as text holds it, "-12.50": sign, digits after the
\* point, and magnitude in units of 10^-places.
Dec(neg, mag, places) == [neg |-> neg, mag |-> mag, places |-> places]

\* a / 10^p: [q |-> quotient, inexact |-> whether a remainder was dropped].
RECURSIVE DivPow10(_, _, _)
DivPow10(a, p, inexact) ==
    IF p = 0 THEN [q |-> a, inexact |-> inexact]
    ELSE IF p >= 4
         THEN LET d == DivSmall(a, 10000)
              IN  DivPow10(d.q, p - 4, inexact \/ d.r # 0)
         ELSE LET d == DivSmall(a, 10)
              IN  DivPow10(d.q, p - 1, inexact \/ d.r # 0)

\* float(text): the double nearest to the numeral, ties to even.  The
\* quotient keeps more than MantBits bits for every numeral of at most 8
\* places, so the dropped remainder only breaks ties.
ParseFloat(d) ==
    LET n == DivPow10(ShiftLeft(d.mag, Scale), d.places, FALSE)
    IN  Dbl(d.neg, RoundMant(n.q, n.inexact))

\* f"{x:.pf}": x rounded to p digits after the point, ties to even on the
\* exact binary value; the sign is kept (Python prints -0.0 for a negative
\* value that rounds to zero).
Format(x, p) == Dec(x.neg, RoundShift(MulPow10(x.mag, p), Scale, FALSE), p)

\* x + y in floating point.
FAdd(x, y) ==
    IF x.neg = y.neg THEN Dbl(x.neg, RoundMant(BAdd(x.mag, y.mag), FALSE))
    ELSE IF BCmp(x.mag, y.mag) = 0 THEN Dbl(FALSE, Zero)
    ELSE IF BCmp(x.mag, y.mag) > 0
         THEN Dbl(x.neg, RoundMant(BSub(x.mag, y.mag), FALSE))
         ELSE Dbl(y.neg, RoundMant(BSub(y.mag, x.mag), FALSE))

\* x == y, x <= y and x < y on floats (-0.0 == 0.0).
FEq(x, y) == (x.mag = Zero /\ y.mag = Zero) \/ (x.neg = y.neg /\ x.mag = y.mag)

FLt(x, y) ==
    IF x.mag = Zero /\ y.mag = Zero THEN FALSE
    ELSE IF x.neg /\ ~y.neg THEN TRUE
    ELSE IF ~x.neg /\ y.neg THEN FALSE
    ELSE IF x.neg THEN BCmp(x.mag, y.mag) > 0
    ELSE BCmp(x.mag, y.mag) < 0

FLe(x, y) == FLt(x, y) \/ FEq(x, y)

\* The float a decimal literal denotes: n * 10^-places.
Lit(n, places) == ParseFloat(Dec(FALSE, FromNat(n), places))

\* 2.0 ** -k.
Pow2Neg(k) == Dbl(FALSE, ShiftLeft(One, Scale - k))

FNeg(x) == Dbl(~x.neg, x.mag)

FZero == Dbl(FALSE, Zero)

\* The sentinel of the selection rule, the literal 2.0.
Two == Lit(20, 1)

\* ------------------------------------------------------------------------
\* Text: tokens, lines and files.
\* ------------------------------------------------------------------------

\* One whitespace-separated token of a line: a numeral float() accepts, or
\* any other word.
Num(neg, n, places) ==
    [num |-> TRUE, word |-> "", val |-> Dec(neg, FromNat(n), places)]

Word(w) == [num |-> FALSE, word |-> w, val |-> Dec(FALSE, Zero, 0)]

NumTok(d) == [num |-> TRUE, word |-> "", val |-> d]

\* A file that does not exist, a file holding a geometry, and a file left
\* truncated or half written by a failed write.
Absent == [kind |-> "absent", header |-> << >>, atoms |-> << >>]

Text(header, atoms) == [kind |-> "text", header |-> header, atoms |-> atoms]

Partial == [kind |-> "partial", header |-> << >>, atoms |-> << >>]

\* The manifest file: one directory name per line.
NoList == [kind |-> "absent", names |-> << >>]

PartialList == [kind |-> "partial", names |-> << >>]

\* ------------------------------------------------------------------------
\* Inputs.
\* ------------------------------------------------------------------------

\* Largest number of sweep steps of one run that the model follows.
MaxIter == 66

HeaderLines == << << Num(FALSE, 3, 0) >>, << Word("ch4o2") >> >>

\* A hydrogen at y = 2.0, an oxygen at y = 2.0 and an oxygen next to it.
Minimal ==
    HeaderLines \o
    << << Word("H"), Num(FALSE, 10, 1), Num(FALSE, 20, 1), Num(TRUE, 5, 1) >>,
       << Word("O"), Num(FALSE, 0, 1), Num(FALSE, 20, 1), Num(FALSE, 0, 1) >>,
       << Word("O"), Num(FALSE, 12, 1), Num(FALSE, 200000001, 8),
          Num(FALSE, 12345678, 8) >> >>

\* The sentinel written "2", a trailing fifth token, a lower-case symbol.
Loose ==
    HeaderLines \o
    << << Word("O"), Num(TRUE, 75, 2), Num(FALSE, 2, 0), Num(FALSE, 1, 0),
          Word("#") >>,
       << Word("o"), Num(FALSE, 0, 0), Num(FALSE, 20, 1), Num(FALSE, 0, 0) >> >>

\* An atom line of three tokens.
Short ==
    HeaderLines \o
    << << Word("O"), Num(FALSE, 0, 1), Num(FALSE, 20, 1), Num(FALSE, 0, 1) >>,
       << Word("H"), Num(FALSE, 10, 1), Num(FALSE, 5, 1) >> >>

\* A coordinate that is no numeral.
NonNumeric ==
    HeaderLines \o
    << << Word("H"), Num(FALSE, 10, 1), Word("abc"), Num(FALSE, 0, 1) >> >>

\* A blank line after the atoms.
Blank ==
    HeaderLines \o
    << << Word("O"), Num(FALSE, 0, 1), Num(FALSE, 20, 1), Num(FALSE, 0, 1) >>,
       << >> >>

InputFiles == {Minimal, Loose, Short, NonNumeric, Blank}

Starts == {Lit(10, 1), Lit(15, 1), Lit(20, 1)}

Stops == {Lit(10, 1), Lit(104, 2), Lit(20, 1), Lit(80, 1)}

Steps == {FNeg(Lit(10, 1)), FZero, Pow2Neg(54), Lit(2, 2), Lit(1, 1), Lit(10, 1)}

\* The output root before the first run: empty, or left by an earlier use
\* with a directory "1.0A" whose two files differ and an old manifest.
Geometry(n) ==
    Text(HeaderLines,
         << [sym |-> Word("X"), x |-> Dec(FALSE, FromNat(n), 8),
             y |-> Dec(FALSE, Zero, 8), z |-> Dec(FALSE, Zero, 8)] >>)

EmptyRoot == [dirs |-> << >>, manifest |-> NoList]

UsedRoot ==
    [dirs |-> [d \in {Dec(FALSE, FromNat(10), 1)} |->
                 [xyz |-> Geometry(1), struc |-> Geometry(2)]],
     manifest |-> [kind |-> "text", names |-> << Dec(FALSE, FromNat(99), 1) >>]]

Roots == {EmptyRoot, UsedRoot}

\* ------------------------------------------------------------------------
\* State.
\* ------------------------------------------------------------------------

VARIABLES
    lines,            \* the input file, one token sequence per line
    start, stop, step,
    fs,               \* the output root: directories, their files, manifest
    pc,               \* where increment_and_write_xyz stands
    header, atoms,    \* lines[:2] and lines[2:]
    all_directories,  \* names of the directories of the steps so far
    current_y,
    modified_atoms,   \* the formatted atom lines of the step under way
    run,              \* 1 for the first call, 2 for its repetition
    fs0               \* the output root as the current call found it

vars == << lines, start, stop, step, fs, pc, header, atoms, all_directories,
           current_y, modified_atoms, run, fs0 >>

params == << lines, start, stop, step >>

Range(s) == {s[i] : i \in 1..Len(s)}

Min(a, b) == IF a < b THEN a ELSE b

\* ------------------------------------------------------------------------
\* The loop body.
\* ------------------------------------------------------------------------

\* The selection without its test of the symbol.
SelectedAnySymbol(parts) == FEq(ParseFloat(parts[3].val), Two)

\* parts[0] == "O" and float(parts[2]) == 2.0
Selected(parts) ==
    /\ parts[1] = Word("O")
    /\ FEq(ParseFloat(parts[3].val), Two)

\* Whether formatting the line raises: IndexError for a missing token,
\* ValueError for a token float() rejects.
Raises(parts) ==
    \/ Len(parts) < 1
    \/ parts[1] = Word("O") /\ (Len(parts) < 3 \/ ~parts[3].num)
    \/ Len(parts) < 4
    \/ \E i \in 2..4 : ~parts[i].num

\* f"{current_y:.6f}"
NewY(y) == NumTok(Format(y, 6))

\* One formatted atom line: the symbol and three coordinates of 8 places.
FormatAtom(parts, y) ==
    LET p2 == IF Selected(parts) THEN NewY(y) ELSE parts[3]
    IN  [sym |-> parts[1],
         x   |-> Format(ParseFloat(parts[2].val), 8),
         y   |-> Format(ParseFloat(p2.val), 8),
         z   |-> Format(ParseFloat(parts[4].val), 8)]

\* f"{current_y:.1f}A"
DirName(y) == Format(y, 1)

\* The formatted lines of a step taken as the template of the next.
ReusedTemplate(template, modified) ==
    [i \in 1..Len(modified) |->
        << modified[i].sym, NumTok(modified[i].x), NumTok(modified[i].y),
           NumTok(modified[i].z) >>]

\* The template the next step reads: the loop builds a new list
\* (modified_atoms) and leaves atoms as read.
NextTemplate(template, modified) == template

\* struc.xyz left as it was.
NotCopied(dir) == dir.struc

\* copy(increment_file, increment_dir / "struc.xyz")

Copied(dir) == dir.xyz

\* The manifest opened for appending.
ListAppended(old, names) == [kind |-> "text", names |-> old.names \o names]

\* open(output_dir / ".list.dirs", "w") and one line per directory.

ListWritten(old, names) == [kind |-> "text", names |-> names]

Exists(name) == name \in DOMAIN fs.dirs

WithDir(name, dir) ==
    [dirs |-> [d \in DOMAIN fs.dirs \cup {name} |->
                 IF d = name THEN dir ELSE fs.dirs[d]],
     manifest |-> fs.manifest]

ThisDir == DirName(current_y)

\* ------------------------------------------------------------------------
\* Actions.
\* ------------------------------------------------------------------------

Init ==
    /\ lines \in InputFiles
    /\ start \in Starts
    /\ stop \in Stops
    /\ step \in Steps
    /\ fs \in Roots
    /\ fs0 = fs
    /\ run = 1
    /\ pc = "read"
    /\ header = << >>
    /\ atoms = << >>
    /\ all_directories = << >>
    /\ current_y = FZero
    /\ modified_atoms = << >>

\* Lines 9-20: read the file, split header and atoms, start the sweep.
Read ==
    /\ pc = "read"
    /\ header' = SubSeq(lines, 1, Min(2, Len(lines)))
    /\ atoms' = SubSeq(lines, 3, Len(lines))
    /\ all_directories' = << >>
    /\ current_y' = start
    /\ modified_atoms' = << >>
    /\ pc' = "loop"
    /\ UNCHANGED << params, fs, run, fs0 >>

\* Lines 21-32: the loop test holds and every atom line is formatted; a
\* line that raises ends the call.
FormatAtoms ==
    /\ pc = "loop"
    /\ FLe(current_y, stop)
    /\ Len(all_directories) < MaxIter
    /\ IF \E i \in 1..Len(atoms) : Raises(atoms[i])
       THEN /\ pc' = "error"
            /\ UNCHANGED modified_atoms
       ELSE /\ pc' = "mkdir"
            /\ modified_atoms' =
                 [i \in 1..Len(atoms) |-> FormatAtom(atoms[i], current_y)]
    /\ UNCHANGED << params, fs, header, atoms, all_directories, current_y,
                    run, fs0 >>

\* Lines 35-37: mkdir(parents=True, exist_ok=True) and the append.
Mkdir ==
    /\ pc = "mkdir"
    /\ fs' = IF Exists(ThisDir) THEN fs
             ELSE WithDir(ThisDir, [xyz |-> Absent, struc |-> Absent])
    /\ all_directories' = Append(all_directories, ThisDir)
    /\ pc' = "write"
    /\ UNCHANGED << params, header, atoms, current_y, modified_atoms, run, fs0 >>

\* Line 36 raises: the directory cannot be created.
MkdirFails ==
    /\ pc = "mkdir"
    /\ ~Exists(ThisDir)
    /\ pc' = "error"
    /\ UNCHANGED << params, fs, header, atoms, all_directories, current_y,
                    modified_atoms, run, fs0 >>

\* Lines 38-43: open(increment_file, "w") and the two writelines.
WriteXyz ==
    /\ pc = "write"
    /\ fs' = WithDir(ThisDir, [xyz   |-> Text(header, modified_atoms),
                               struc |-> fs.dirs[ThisDir].struc])
    /\ pc' = "copy"
    /\ UNCHANGED << params, header, atoms, all_directories, current_y,
                    modified_atoms, run, fs0 >>

\* Lines 41-43 raise: open fails and the file is as before, or open has
\* truncated the file and a write fails.
WriteXyzFails ==
    /\ pc = "write"
    /\ \E f \in {fs.dirs[ThisDir].xyz, Partial} :
          fs' = WithDir(ThisDir, [xyz |-> f, struc |-> fs.dirs[ThisDir].struc])
    /\ pc' = "error"
    /\ UNCHANGED << params, header, atoms, all_directories, current_y,
                    modified_atoms, run, fs0 >>

\* Lines 46-49: the copy to struc.xyz, then current_y += step.
CopyStruc ==
    /\ pc = "copy"
    /\ fs' = WithDir(ThisDir, [xyz   |-> fs.dirs[ThisDir].xyz,
                               struc |-> Copied(fs.dirs[ThisDir])])
    /\ current_y' = FAdd(current_y, step)
    /\ atoms' = NextTemplate(atoms, modified_atoms)
    /\ pc' = "loop"
    /\ UNCHANGED << params, header, all_directories, modified_atoms, run, fs0 >>

\* Line 46 raises: struc.xyz is as before, or truncated.
CopyStrucFails ==
    /\ pc = "copy"
    /\ \E f \in {fs.dirs[ThisDir].struc, Partial} :
          fs' = WithDir(ThisDir, [xyz |-> fs.dirs[ThisDir].xyz, struc |-> f])
    /\ pc' = "error"
    /\ UNCHANGED << params, header, atoms, all_directories, current_y,
                    modified_atoms, run, fs0 >>

\* Lines 21, 52-54: the loop test fails and the manifest is written.
WriteManifest ==
    /\ pc = "loop"
    /\ ~FLe(current_y, stop)
    /\ fs' = [fs EXCEPT !.manifest = ListWritten(fs.manifest, all_directories)]
    /\ pc' = "done"
    /\ UNCHANGED << params, header, atoms, all_directories, current_y,
                    modified_atoms, run, fs0 >>

\* Lines 52-54 raise: the manifest is as before, or truncated.
WriteManifestFails ==
    /\ pc = "loop"
    /\ ~FLe(current_y, stop)
    /\ \E f \in {fs.manifest, PartialList} : fs' = [fs EXCEPT !.manifest = f]
    /\ pc' = "error"
    /\ UNCHANGED << params, header, atoms, all_directories, current_y,
                    modified_atoms, run, fs0 >>

\* The caller runs the function again with the same arguments.
Rerun ==
    /\ pc = "done"
    /\ run = 1
    /\ run' = 2
    /\ fs0' = fs
    /\ pc' = "read"
    /\ UNCHANGED << params, fs, header, atoms, all_directories, current_y,
                    modified_atoms >>

Next ==
    \/ Read
    \/ FormatAtoms
    \/ Mkdir
    \/ MkdirFails
    \/ WriteXyz
    \/ WriteXyzFails
    \/ CopyStruc
    \/ CopyStrucFails
    \/ WriteManifest
    \/ WriteManifestFails
    \/ Rerun

Spec == Init /\ [][Next]_vars

\* ------------------------------------------------------------------------
\* Vocabulary of the properties, stated on the input file and the disk.
\* ------------------------------------------------------------------------

InputAtoms == SubSeq(lines, 3, Len(lines))

\* The numeral read at 8 places: "2", "2.0" and "2.00000000" are one number.
AtEight(d) == Dec(d.neg, MulPow10(d.mag, 8 - d.places), 8)

\* An input line that is oxygen with y exactly 2.0.
IsSentinelOxygen(parts) ==
    /\ Len(parts) >= 3
    /\ parts[1] = Word("O")
    /\ parts[3].num
    /\ AtEight(parts[3].val) = Dec(FALSE, FromNat(200000000), 8)

\* An input with an atom line of fewer than 4 tokens or with a coordinate
\* token that is no numeral.
Malformed ==
    \E i \in 1..Len(InputAtoms) :
        \/ Len(InputAtoms[i]) < 4
        \/ \E j \in 2..4 : ~InputAtoms[i][j].num

\* A sweep step is complete: the call stands at the loop test or has ended
\* normally.
StepComplete == pc \in {"loop", "done"}

\* The file keeps count, order, symbols, x and z of the input, and y of
\* every atom that is not a sentinel oxygen.
FrameKept(file) ==
    /\ file.kind = "text"
    /\ Len(file.atoms) = Len(InputAtoms)
    /\ \A i \in 1..Len(InputAtoms) :
          /\ file.atoms[i].sym = InputAtoms[i][1]
          /\ file.atoms[i].x = AtEight(InputAtoms[i][2].val)
          /\ file.atoms[i].z = AtEight(InputAtoms[i][4].val)
          /\ ~IsSentinelOxygen(InputAtoms[i])
                => file.atoms[i].y = AtEight(InputAtoms[i][3].val)

\* The sweep value as the six-place numeral the code writes, at 8 places.
SweepNumeral(y) == AtEight(Format(y, 6))

\* floor((stop - start) / step) + 1 on the decimal values of the arguments
\* (8 places), when step is positive and start <= stop.
ExpectedCounts ==
    LET a == BSub(Format(stop, 8).mag, Format(start, 8).mag)
        b == Format(step, 8).mag
    IN  {k + 1 : k \in {k \in 0..(MaxIter + 1) :
                          /\ BCmp(MulSmall(b, k), a) <= 0
                          /\ BCmp(MulSmall(b, k + 1), a) > 0}}

\* Directories of the steps before the one under way.
EarlierDirs ==
    IF pc \in {"write", "copy"}
    THEN Range(SubSeq(all_directories, 1, Len(all_directories) - 1))
    ELSE Range(all_directories)

\* ------------------------------------------------------------------------
\* Properties.
\* ------------------------------------------------------------------------

\* C1: when the call has ended, every directory of the run stands on exactly
\* one line of the manifest, nothing else is listed, and the lines are in
\* strictly increasing order of sweep value.
C1_ManifestListsEachDirectoryOnce ==
    pc = "done" =>
        LET m == fs.manifest.names
        IN  /\ Range(m) = Range(all_directories)
            /\ \A d \in Range(all_directories) :
                  d \in DOMAIN fs.dirs
                  /\ Cardinality({i \in 1..Len(m) : m[i] = d}) = 1
            /\ \A i \in 1..Len(m) : \A j \in 1..Len(m) :
                  i < j => FLt(m[i], m[j])

\* C2: at the end of every completed step, in every directory the run has
\* written, <name>.xyz and struc.xyz hold the same geometry.
C2_TwoFilesIdentical ==
    StepComplete =>
        \A d \in Range(all_directories) :
            /\ fs.dirs[d].xyz.kind = "text"
            /\ fs.dirs[d].xyz = fs.dirs[d].struc

\* C2 witness: a step is complete in a directory that existed before the
\* run with two different files and that two steps of the run have written.
C2_Witness ==
    /\ pc = "loop"
    /\ run = 1
    /\ fs0 = UsedRoot
    /\ Len(all_directories) >= 2
    /\ all_directories[1] = all_directories[2]
    /\ all_directories[1] \in DOMAIN fs0.dirs

\* C3: for start <= stop and step > 0 a completed run has produced
\* floor((stop - start) / step) + 1 directories.
C3_DirectoryCount ==
    (pc = "done" /\ FLe(start, stop) /\ FLt(FZero, step)) =>
        Cardinality(Range(all_directories)) \in ExpectedCounts

\* C4: every geometry file of every completed step, and the file a step has
\* just written, keeps atom count, order, symbols, x and z of the input and
\* the y of every atom that is not an oxygen with y = 2.0.
C4_UnselectedAtomsKept ==
    /\ StepComplete =>
          \A d \in Range(all_directories) :
              FrameKept(fs.dirs[d].xyz) /\ FrameKept(fs.dirs[d].struc)
    /\ pc = "copy" => FrameKept(fs.dirs[ThisDir].xyz)

\* C4 witness: two steps are complete on the input that holds a hydrogen
\* with y = 2.0 and an oxygen with y = 2.00000001.
C4_Witness ==
    /\ pc = "loop"
    /\ lines = Minimal
    /\ Len(all_directories) >= 2

\* C5: in the file a step has just written, every atom that is an oxygen
\* with y = 2.0 in the input file has the step's sweep value (as the code
\* prints it, to six places) as its y.
C5_SelectionAgainstTemplate ==
    pc = "copy" =>
        \A i \in 1..Len(InputAtoms) :
            IsSentinelOxygen(InputAtoms[i]) =>
                /\ i <= Len(fs.dirs[ThisDir].xyz.atoms)
                /\ fs.dirs[ThisDir].xyz.atoms[i].y = SweepNumeral(current_y)

\* C5 witness: a step beyond 2.0 has written its file after an earlier step
\* of the same run wrote the sweep value 2.0.
C5_Witness ==
    /\ pc = "copy"
    /\ lines = Minimal
    /\ FLt(Two, current_y)
    /\ \E i \in 1..(Len(all_directories) - 1) :
          all_directories[i] = DirName(Two)

\* C6: a second call with the same arguments ends with the output root as
\* the first call left it.
C6_SecondRunSameOutput ==
    (run = 2 /\ pc = "done") => fs = fs0

\* C6 witness: the second call has ended after a sweep of several steps.
C6_Witness ==
    /\ run = 2
    /\ pc = "done"
    /\ Len(all_directories) >= 3
    /\ lines = Minimal

\* C7: with a malformed atom line (and a positive step) the call never ends
\* normally and the output root stays as the call found it: no directory,
\* no geometry file and no manifest is written.
C7_MalformedInputWritesNothing ==
    (Malformed /\ FLt(FZero, step)) => (pc # "done" /\ fs = fs0)

\* C8: with step <= 0 no step directory is written and the call does not
\* end normally.
C8_NonPositiveStepRejected ==
    FLe(step, FZero) => (all_directories = << >> /\ fs = fs0 /\ pc # "done")

\* C9: in a sweep with a positive step the manifest changes only once the
\* loop test has failed, a step that fails leaves the directories of the
\* earlier steps as they were, and nothing happens after a failure.
C9_FailureKeepsEarlierOutputs ==
    [][FLt(FZero, step) =>
         /\ fs'.manifest # fs.manifest
               => (pc = "loop" /\ ~FLe(current_y, stop))
         /\ (pc # "error" /\ pc' = "error")
               => \A d \in EarlierDirs : fs'.dirs[d] = fs.dirs[d]
         /\ pc # "error"]_vars

\* C10: with step > 0 the sweep value strictly increases from one step to
\* the next, and no step runs for a value above stop.
C10_SweepAdvances ==
    [][/\ (pc = "copy" /\ pc' = "loop" /\ FLt(FZero, step))
             => FLt(current_y, current_y')
       /\ pc' = "mkdir" => FLe(current_y, stop)]_vars

\* ------------------------------------------------------------------------
\* What does hold of the code where C1, C3, C7 and C9 fail.
\* ------------------------------------------------------------------------

DistinctNames ==
    \A i \in 1..Len(all_directories) : \A j \in 1..Len(all_directories) :
        i # j => all_directories[i] # all_directories[j]

\* The manifest property of C1 holds of every completed run with a positive
\* step whose steps wrote different directories.
ManifestWhenNamesDistinct ==
    (pc = "done" /\ FLt(FZero, step) /\ DistinctNames)
        => C1_ManifestListsEachDirectoryOnce

\* The two literal cases of C3: 1.5, 8.0, 0.1 gives the 66 directories 1.5A
\* to 8.0A, and 1.0, 1.0, 1.0 gives the one directory 1.0A and a manifest of
\* one line.
LiteralSweeps ==
    /\ (pc = "done" /\ start = Lit(15, 1) /\ stop = Lit(80, 1)
          /\ step = Lit(1, 1))
          => /\ Len(all_directories) = 66
             /\ Range(all_directories)
                  = {Dec(FALSE, FromNat(t), 1) : t \in 15..80}
    /\ (pc = "done" /\ start = Lit(10, 1) /\ stop = Lit(10, 1)
          /\ step = Lit(10, 1))
          => /\ all_directories = << Dec(FALSE, FromNat(10), 1) >>
             /\ fs.manifest.names = all_directories

\* With start <= stop a malformed input ends the call in the first step,
\* before anything is written.
MalformedFailsInFirstStep ==
    (Malformed /\ FLe(start, stop))
        => (pc \in {"read", "loop", "error"} /\ fs = fs0)

\* A failing step leaves the directories of the earlier steps as they were
\* unless it writes the directory of an earlier step; the manifest is
\* written only after the loop and nothing follows a failure.
FailureKeepsOtherDirectories ==
    [][/\ fs'.manifest # fs.manifest
             => (pc = "loop" /\ ~FLe(current_y, stop))
       /\ (pc # "error" /\ pc' = "error"
             /\ (pc \in {"write", "copy"} => ThisDir \notin EarlierDirs))
             => \A d \in EarlierDirs : fs'.dirs[d] = fs.dirs[d]
       /\ pc # "error"]_vars

====
